---- MODULE Spec2Model ----
(***************************************************************************)
(* Model of the contact directory of src/address_book.py (Field, Phone,    *)
(* Birthday, Record, AddressBook) and of the add command of src/main.py.   *)
(*                                                                         *)
(* Python strings are sequences of one-character strings, so that          *)
(* str.isdigit, len, strptime and strftime are computed character by       *)
(* character.  An optional value (None or an object) is a sequence of      *)
(* length 0 or 1.  Dates are records [year, month, day]; date arithmetic   *)
(* goes through proleptic Gregorian ordinals as datetime does.             *)
(***************************************************************************)
EXTENDS Integers, Sequences, FiniteSets, TLC

VARIABLES data, last, lastDirOp, birthdays

vars == <<data, last, lastDirOp, birthdays>>

(***************************************************************************)
(* Bounds of the model.                                                    *)
(***************************************************************************)
\* most phones the records of the book hold together
MaxPhones == 2
\* the query is asked on FirstToday and on each of the TodaySpan days after it
TodaySpan == 69

None == <<>>
Some(x) == <<x>>

Names == {"ann", "bob"}

(***************************************************************************)
(* Characters and strings.                                                 *)
(***************************************************************************)
Digits == {"0", "1", "2", "3", "4", "5", "6", "7", "8", "9"}

DigitValue ==
    "0" :> 0 @@ "1" :> 1 @@ "2" :> 2 @@ "3" :> 3 @@ "4" :> 4 @@
    "5" :> 5 @@ "6" :> 6 @@ "7" :> 7 @@ "8" :> 8 @@ "9" :> 9

DigitChar == [v \in 0..9 |-> CHOOSE c \in Digits : DigitValue[c] = v]

\* str.isdigit(): a non-empty string all of whose characters are digits
isdigit(s) == Len(s) > 0 /\ \A i \in 1..Len(s) : s[i] \in Digits

\* int(s) of a string of digits
RECURSIVE int(_)
int(s) ==
    IF Len(s) = 0 THEN 0
    ELSE 10 * int(SubSeq(s, 1, Len(s) - 1)) + DigitValue[s[Len(s)]]

\* the number n written with exactly w digits, zero padded (%02d, %04d)
RECURSIVE zfill(_, _)
zfill(n, w) ==
    IF w = 0 THEN <<>>
    ELSE Append(zfill(n \div 10, w - 1), DigitChar[n % 10])

(***************************************************************************)
(* The calendar of datetime.date.                                          *)
(***************************************************************************)
is_leap(year) == year % 4 = 0 /\ (year % 100 # 0 \/ year % 400 = 0)

DAYS_IN_MONTH == <<31, 28, 31, 30, 31, 30, 31, 31, 30, 31, 30, 31>>

days_in_month(year, month) ==
    IF month = 2 /\ is_leap(year) THEN 29 ELSE DAYS_IN_MONTH[month]

DAYS_BEFORE_MONTH == <<0, 31, 59, 90, 120, 151, 181, 212, 243, 273, 304, 334>>

days_before_month(year, month) ==
    DAYS_BEFORE_MONTH[month] + (IF month > 2 /\ is_leap(year) THEN 1 ELSE 0)

days_before_year(year) ==
    LET y == year - 1
    IN  y * 365 + y \div 4 - y \div 100 + y \div 400

\* date.toordinal(): 1 is 01.01.0001
ymd2ord(d) ==
    days_before_year(d.year) + days_before_month(d.year, d.month) + d.day

\* date.fromordinal()
ord2ymd(n) ==
    LET DI400Y == days_before_year(401)
        DI100Y == days_before_year(101)
        DI4Y   == days_before_year(5)
        n0   == n - 1
        n400 == n0 \div DI400Y
        r400 == n0 % DI400Y
        n100 == r400 \div DI100Y
        r100 == r400 % DI100Y
        n4   == r100 \div DI4Y
        r4   == r100 % DI4Y
        n1   == r4 \div 365
        r1   == r4 % 365
        year == n400 * 400 + 1 + n100 * 100 + n4 * 4 + n1
    IN  IF n1 = 4 \/ n100 = 4
        THEN [year |-> year - 1, month |-> 12, day |-> 31]
        ELSE LET month == CHOOSE m \in 1..12 :
                            /\ days_before_month(year, m) <= r1
                            /\ r1 < days_before_month(year, m)
                                      + days_in_month(year, m)
             IN  [year |-> year, month |-> month,
                  day |-> r1 - days_before_month(year, month) + 1]

\* date.weekday(): Monday is 0, Sunday is 6
weekday(d) == (ymd2ord(d) + 6) % 7

\* date + timedelta(days=k)
PlusDays(d, k) == ord2ymd(ymd2ord(d) + k)

\* the comparison d1 <= d2 of two dates
DateLE(d1, d2) ==
    \/ d1.year < d2.year
    \/ d1.year = d2.year /\ d1.month < d2.month
    \/ d1.year = d2.year /\ d1.month = d2.month /\ d1.day <= d2.day

\* date.replace(year=y): raises ValueError when the day does not exist in y
ReplaceYearFails(d, y) == d.day > days_in_month(y, d.month)

ReplaceYear(d, y) == [year |-> y, month |-> d.month, day |-> d.day]

(***************************************************************************)
(* datetime.strptime(value, "%d.%m.%Y") and strftime("%d.%m.%Y").          *)
(***************************************************************************)
\* position of the first "." of s at or after position i, 0 when there is none
RECURSIVE FirstDot(_, _)
FirstDot(s, i) ==
    IF i > Len(s) THEN 0
    ELSE IF s[i] = "." THEN i
    ELSE FirstDot(s, i + 1)

\* %d matches 3[0-1] | [1-2]\d | 0[1-9] | [1-9] | " "[1-9]
MatchesDay(t) ==
    \/ Len(t) = 2 /\ t[1] = "3" /\ t[2] \in {"0", "1"}
    \/ Len(t) = 2 /\ t[1] \in {"1", "2"} /\ t[2] \in Digits
    \/ Len(t) = 2 /\ t[1] \in {"0", " "} /\ t[2] \in Digits \ {"0"}
    \/ Len(t) = 1 /\ t[1] \in Digits \ {"0"}

\* %m matches 1[0-2] | 0[1-9] | [1-9]
MatchesMonth(t) ==
    \/ Len(t) = 2 /\ t[1] = "1" /\ t[2] \in {"0", "1", "2"}
    \/ Len(t) = 2 /\ t[1] = "0" /\ t[2] \in Digits \ {"0"}
    \/ Len(t) = 1 /\ t[1] \in Digits \ {"0"}

\* %Y matches \d\d\d\d, and nothing may follow it
MatchesYear(t) == Len(t) = 4 /\ isdigit(t)

\* the digits of a day token, its leading blank dropped
DayDigits(t) == IF t[1] = " " THEN Tail(t) ELSE t

\* strptime: Some(date) when value parses to a date that exists, None when
\* strptime raises ValueError
strptime(value) ==
    LET i == FirstDot(value, 1)
        j == IF i = 0 THEN 0 ELSE FirstDot(value, i + 1)
    IN  IF i = 0 \/ j = 0 THEN None
        ELSE LET dt == SubSeq(value, 1, i - 1)
                 mt == SubSeq(value, i + 1, j - 1)
                 yt == SubSeq(value, j + 1, Len(value))
             IN  IF ~(MatchesDay(dt) /\ MatchesMonth(mt) /\ MatchesYear(yt))
                 THEN None
                 ELSE LET y == int(yt)
                          m == int(mt)
                          d == int(DayDigits(dt))
                      IN  IF y < 1 \/ d > days_in_month(y, m) THEN None
                          ELSE Some([year |-> y, month |-> m, day |-> d])

\* strftime("%d.%m.%Y")
strftime(d) ==
    zfill(d.day, 2) \o <<".">> \o zfill(d.month, 2) \o <<".">>
        \o zfill(d.year, 4)

(***************************************************************************)
(* Fields.  A constructor yields Some(field value), or None when it raises *)
(* ValueError.                                                             *)
(***************************************************************************)
PhoneError == "ValueError: Phone number must be exactly 10 digits."
BirthdayError == "ValueError: Invalid date format. Use DD.MM.YYYY"
UsageError == "ValueError: Name or number are missing. usage: add <name> <number>"
RangeError == "ValueError: day is out of range for month"

\* Phone.__init__
Phone(value) ==
    IF ~isdigit(value) \/ Len(value) # 10 THEN None ELSE Some(value)

\* Birthday.__init__
Birthday(value) == strptime(value)

\* Record.__init__
Record(name) == [name |-> name, phones |-> <<>>, birthday |-> None]

(***************************************************************************)
(* Record: the operations on one contact.  An operation that can raise     *)
(* yields [raised, rec]: whether it raised, and the record it leaves.      *)
(***************************************************************************)
\* add_phone appending the raw value before the Phone is constructed
add_phone_append_first(rec, phone) ==
    [raised |-> Phone(phone) = None,
     rec |-> [rec EXCEPT !.phones = Append(@, phone)]]

\* Record.add_phone: Phone(phone) is constructed before the append
add_phone(rec, phone) ==
    IF Phone(phone) = None
    THEN [raised |-> TRUE, rec |-> rec]
    ELSE [raised |-> FALSE,
          rec |-> [rec EXCEPT !.phones = Append(@, Phone(phone)[1])]]

\* remove_phone as list.remove would do it: only the first match goes
RECURSIVE RemoveFirst(_, _)
RemoveFirst(phones, phone) ==
    IF phones = <<>> THEN <<>>
    ELSE IF Head(phones) # phone
         THEN <<Head(phones)>> \o RemoveFirst(Tail(phones), phone)
         ELSE Tail(phones)

\* Record.remove_phone: [p for p in self.phones if p.value != phone]
RECURSIVE RemoveAll(_, _)
RemoveAll(phones, phone) ==
    IF phones = <<>> THEN <<>>
    ELSE IF Head(phones) # phone
         THEN <<Head(phones)>> \o RemoveAll(Tail(phones), phone)
         ELSE RemoveAll(Tail(phones), phone)

remove_phone(rec, phone) == [rec EXCEPT !.phones = RemoveAll(@, phone)]

\* edit_phone with a break after the first match
RECURSIVE EditFirst(_, _, _)
EditFirst(phones, old_phone, new_phone) ==
    IF phones = <<>> THEN <<>>
    ELSE IF Head(phones) = old_phone THEN <<new_phone>> \o Tail(phones)
    ELSE <<Head(phones)>> \o EditFirst(Tail(phones), old_phone, new_phone)

\* Record.edit_phone: the loop assigns new_phone to p.value, no Phone is built
RECURSIVE EditLoop(_, _, _)
EditLoop(phones, old_phone, new_phone) ==
    IF phones = <<>> THEN <<>>
    ELSE <<IF Head(phones) = old_phone THEN new_phone ELSE Head(phones)>>
             \o EditLoop(Tail(phones), old_phone, new_phone)

edit_phone(rec, old_phone, new_phone) ==
    [rec EXCEPT !.phones = EditLoop(@, old_phone, new_phone)]

\* Record.find_phone: the first phone whose value is phone, or None
RECURSIVE FindLoop(_, _)
FindLoop(phones, phone) ==
    IF phones = <<>> THEN None
    ELSE IF Head(phones) = phone THEN Some(Head(phones))
    ELSE FindLoop(Tail(phones), phone)

find_phone(rec, phone) == FindLoop(rec.phones, phone)

\* Record.add_birthday: Birthday(birthday) is constructed before the assignment
add_birthday(rec, birthday) ==
    IF Birthday(birthday) = None
    THEN [raised |-> TRUE, rec |-> rec]
    ELSE [raised |-> FALSE, rec |-> [rec EXCEPT !.birthday = Birthday(birthday)]]

\* Record.get_birthday
get_birthday(rec) ==
    IF rec.birthday # None THEN Some(strftime(rec.birthday[1])) ELSE None

(***************************************************************************)
(* AddressBook: self.data is a dict, here the sequence of its entries      *)
(* [key, rec] in insertion order.                                          *)
(***************************************************************************)
\* position of key in the dict, 0 when it is not a key
RECURSIVE KeyIndex(_, _)
KeyIndex(d, key) ==
    IF d = <<>> THEN 0
    ELSE IF d[Len(d)].key = key THEN Len(d)
    ELSE KeyIndex(SubSeq(d, 1, Len(d) - 1), key)

Keys(d) == {d[i].key : i \in 1..Len(d)}

\* d[key] = rec
SetItem(d, key, rec) ==
    IF KeyIndex(d, key) = 0
    THEN Append(d, [key |-> key, rec |-> rec])
    ELSE [d EXCEPT ![KeyIndex(d, key)].rec = rec]

\* AddressBook.add_record
add_record(d, record) == SetItem(d, record.name, record)

\* AddressBook.find
find(d, name) ==
    IF KeyIndex(d, name) = 0 THEN None ELSE Some(d[KeyIndex(d, name)].rec)

\* delete that pops the oldest entry instead of the named one
delete_oldest(d, name) == IF name \in Keys(d) THEN Tail(d) ELSE d

\* AddressBook.delete
delete(d, name) ==
    IF name \in Keys(d)
    THEN SubSeq(d, 1, KeyIndex(d, name) - 1)
            \o SubSeq(d, KeyIndex(d, name) + 1, Len(d))
    ELSE d

\* the number of phones of all the records of the dict
RECURSIVE TotalPhones(_)
TotalPhones(d) ==
    IF d = <<>> THEN 0 ELSE Len(Head(d).rec.phones) + TotalPhones(Tail(d))

\* the weekend shift with 6 - weekday for 7 - weekday
CongratulationOffByOne(user_birthday) ==
    IF weekday(user_birthday) \in {5, 6}
    THEN PlusDays(user_birthday, 6 - weekday(user_birthday))
    ELSE user_birthday

\* the weekend shift of get_upcoming_birthdays
Congratulation(user_birthday) ==
    IF weekday(user_birthday) \in {5, 6}
    THEN PlusDays(user_birthday, 7 - weekday(user_birthday))
    ELSE user_birthday

\* the last day the window of get_upcoming_birthdays accepts
date_today_plus_week(date_today) == PlusDays(date_today, 7)

\* the loop of get_upcoming_birthdays over self.data.values(), from entry i
\* on: [raised, out], where raised tells that replace() raised ValueError
RECURSIVE BirthdaysLoop(_, _, _)
BirthdaysLoop(d, i, date_today) ==
    IF i > Len(d) THEN [raised |-> FALSE, out |-> <<>>]
    ELSE LET record == d[i].rec
             rest == BirthdaysLoop(d, i + 1, date_today)
         IN  IF record.birthday = None THEN rest
             ELSE IF ReplaceYearFails(record.birthday[1], date_today.year)
             THEN [raised |-> TRUE, out |-> <<>>]
             ELSE LET user_birthday ==
                          ReplaceYear(record.birthday[1], date_today.year)
                  IN  IF /\ DateLE(date_today, user_birthday)
                         /\ DateLE(user_birthday,
                                   date_today_plus_week(date_today))
                      THEN [raised |-> rest.raised,
                            out |-> IF rest.raised THEN <<>>
                                    ELSE <<[name |-> record.name,
                                            congratulation_date |->
                                              strftime(Congratulation(user_birthday))]>>
                                         \o rest.out]
                      ELSE rest

\* AddressBook.get_upcoming_birthdays with datetime.today().date() = date_today
get_upcoming_birthdays(d, date_today) == BirthdaysLoop(d, 1, date_today)

(***************************************************************************)
(* Inputs.                                                                 *)
(***************************************************************************)
Phone1 == <<"0", "5", "0", "1", "2", "3", "4", "5", "6", "7">>
Phone2 == <<"0", "6", "7", "9", "8", "7", "6", "5", "4", "3">>
ShortPhone == <<"1", "2", "3", "4", "5">>
AlphaPhone == <<"0", "5", "0", "1", "2", "x", "4", "5", "6", "7">>

\* what add_phone and the add command are given
PhoneRaws == {Phone1, Phone2, ShortPhone, AlphaPhone}
\* what remove_phone and edit_phone are given
EditRaws == {Phone1, Phone2, ShortPhone}

\* the text DD.MM.YYYY of a day, month and year
Text(day, month, year) == strftime([year |-> year, month |-> month, day |-> day])

\* birthdays given in the record specification
FewBirthdayRaws ==
    { <<"4", ".", "3", ".", "1", "9", "9", "0">>,
      Text(31, 2, 2000),
      <<"1", "9", "9", "0", "-", "0", "6", "-", "1", "2">> }

\* birthdays given in the birthday specification
BirthdayRaws ==
    { Text(6, 1, 1990), Text(29, 2, 2000),
      Text(31, 12, 2000),
      Text(29, 2, 2023),
      <<"0", "4", ".", "0", "3", ".", "9", "0">> }

FirstToday == [year |-> 2023, month |-> 12, day |-> 23]

Todays == {PlusDays(FirstToday, k) : k \in 0..TodaySpan}

(***************************************************************************)
(* State.  data is the dict of the address book; last describes the last   *)
(* call: its arguments, what it returned or raised, and the record it was  *)
(* about as it was before the call; lastDirOp is, per name, the last of    *)
(* add_record and delete that was given it; birthdays is the list the last *)
(* get_upcoming_birthdays returned.                                        *)
(***************************************************************************)
Call(op, name, arg, arg2, today, result, pre) ==
    [op |-> op, name |-> name, arg |-> arg, arg2 |-> arg2, today |-> today,
     result |-> result, pre |-> pre]

Init ==
    /\ data = <<>>
    /\ last = Call("init", "", <<>>, <<>>, None, "ok", None)
    /\ lastDirOp = [n \in Names |-> "never"]
    /\ birthdays = <<>>

\* book.add_record(Record(name))
AddRecord(name) ==
    /\ data' = add_record(data, Record(name))
    /\ last' = Call("add_record", name, <<>>, <<>>, None, "ok", find(data, name))
    /\ lastDirOp' = [lastDirOp EXCEPT ![name] = "add_record"]
    /\ UNCHANGED birthdays

\* book.delete(name)
Delete(name) ==
    /\ data' = delete(data, name)
    /\ last' = Call("delete", name, <<>>, <<>>, None, "ok", find(data, name))
    /\ lastDirOp' = [lastDirOp EXCEPT ![name] = "delete"]
    /\ UNCHANGED birthdays

\* book.find(name).add_phone(phone)
AddPhone(name, phone) ==
    /\ find(data, name) # None
    /\ TotalPhones(data) < MaxPhones
    /\ LET r == add_phone(find(data, name)[1], phone)
       IN  /\ data' = SetItem(data, name, r.rec)
           /\ last' = Call("add_phone", name, phone, <<>>, None,
                           IF r.raised THEN PhoneError ELSE "ok",
                           find(data, name))
    /\ UNCHANGED <<lastDirOp, birthdays>>

\* book.find(name).remove_phone(phone)
RemovePhone(name, phone) ==
    /\ find(data, name) # None
    /\ data' = SetItem(data, name, remove_phone(find(data, name)[1], phone))
    /\ last' = Call("remove_phone", name, phone, <<>>, None, "ok",
                    find(data, name))
    /\ UNCHANGED <<lastDirOp, birthdays>>

\* book.find(name).edit_phone(old_phone, new_phone)
EditPhone(name, old_phone, new_phone) ==
    /\ find(data, name) # None
    /\ data' = SetItem(data, name,
                       edit_phone(find(data, name)[1], old_phone, new_phone))
    /\ last' = Call("edit_phone", name, old_phone, new_phone, None, "ok",
                    find(data, name))
    /\ UNCHANGED <<lastDirOp, birthdays>>

\* book.find(name).add_birthday(birthday)
AddBirthday(name, birthday) ==
    /\ find(data, name) # None
    /\ LET r == add_birthday(find(data, name)[1], birthday)
       IN  /\ data' = SetItem(data, name, r.rec)
           /\ last' = Call("add_birthday", name, birthday, <<>>, None,
                           IF r.raised THEN BirthdayError ELSE "ok",
                           find(data, name))
    /\ UNCHANGED <<lastDirOp, birthdays>>

\* main.add_contact(args, book), under the input_error decorator
add_contact(d, args) ==
    IF Len(args) < 2 THEN [result |-> UsageError, data |-> d]
    ELSE LET name == args[1]
             phone == args[2]
             found == find(d, name)
             record == IF found = None THEN Record(name) ELSE found[1]
             d1 == IF found = None THEN add_record(d, record) ELSE d
             message == IF found = None THEN "Contact added."
                        ELSE "Contact updated."
         IN  IF phone = <<>> THEN [result |-> message, data |-> d1]
             ELSE IF add_phone(record, phone).raised
             THEN [result |-> PhoneError, data |-> d1]
             ELSE [result |-> message,
                   data |-> SetItem(d1, name, add_phone(record, phone).rec)]

AddContact(args) ==
    /\ TotalPhones(data) < MaxPhones
    /\ data' = add_contact(data, args).data
    /\ last' = Call("add_contact", args[1],
                    IF Len(args) < 2 THEN <<>> ELSE args[2], <<>>, None,
                    add_contact(data, args).result, find(data, args[1]))
    /\ lastDirOp' =
         IF Len(args) >= 2 /\ find(data, args[1]) = None
         THEN [lastDirOp EXCEPT ![args[1]] = "add_record"]
         ELSE lastDirOp
    /\ UNCHANGED birthdays

\* book.get_upcoming_birthdays() on the day date_today
GetUpcomingBirthdays(date_today) ==
    /\ LET r == get_upcoming_birthdays(data, date_today)
       IN  /\ birthdays' = r.out
           /\ last' = Call("get_upcoming_birthdays", "", <<>>, <<>>,
                           Some(date_today),
                           IF r.raised THEN RangeError ELSE "ok", None)
    /\ UNCHANGED <<data, lastDirOp>>

Next ==
    \/ \E name \in Names : AddRecord(name)
    \/ \E name \in Names : Delete(name)
    \/ \E name \in Names, phone \in PhoneRaws : AddPhone(name, phone)
    \/ \E name \in Names, phone \in EditRaws : RemovePhone(name, phone)
    \/ \E name \in Names, old_phone \in EditRaws, new_phone \in EditRaws :
          EditPhone(name, old_phone, new_phone)
    \/ \E name \in Names, birthday \in FewBirthdayRaws :
          AddBirthday(name, birthday)
    \/ \E name \in Names, phone \in PhoneRaws : AddContact(<<name, phone>>)
    \/ \E name \in Names : AddContact(<<name>>)

Spec == Init /\ [][Next]_vars

NextBirthdays ==
    \/ \E name \in Names : AddRecord(name)
    \/ \E name \in Names : Delete(name)
    \/ \E name \in Names, birthday \in BirthdayRaws :
          AddBirthday(name, birthday)
    \/ \E date_today \in Todays : GetUpcomingBirthdays(date_today)

SpecBirthdays == Init /\ [][NextBirthdays]_vars

(***************************************************************************)
(* What the claims are stated with.                                        *)
(***************************************************************************)
\* the record of the last call as it is now, and as it was before the call
Post == find(data, last.name)[1]
Pre == last.pre[1]

Query == last.op = "get_upcoming_birthdays"
Today == last.today[1]

\* the names the last query emitted
Emitted == {birthdays[i].name : i \in 1..Len(birthdays)}

\* day of the week, Monday 0 to Sunday 6, counted from Monday 01.01.2001
DayOfWeek(d) == (ymd2ord(d) - ymd2ord([year |-> 2001, month |-> 1, day |-> 1])) % 7

\* the birthday b has an occurrence in the year of today
HasOccurrence(b, today) == b.day <= days_in_month(today.year, b.month)

Occurrence(b, today) == [year |-> today.year, month |-> b.month, day |-> b.day]

\* the occurrence of b in the year of today is one of today .. today + k
OccursWithin(b, today, k) ==
    /\ HasOccurrence(b, today)
    /\ ymd2ord(today) <= ymd2ord(Occurrence(b, today))
    /\ ymd2ord(Occurrence(b, today)) <= ymd2ord(today) + k

\* one of the days today .. today + k has the day and month of b
NextOccursWithin(b, today, k) ==
    \E j \in 0..k :
        /\ PlusDays(today, j).month = b.month
        /\ PlusDays(today, j).day = b.day

TenDigits(s) == Len(s) = 10 /\ \A i \in 1..Len(s) : s[i] \in Digits

\* the ways strptime reads the number n of a day or a month
NumberTexts(n) ==
    {zfill(n, 2)} \cup (IF n < 10 THEN {<<DigitChar[n]>>} ELSE {})

\* s is a date that exists, written day.month.year with a four digit year
ValidDate(s) ==
    \E d \in 1..31, m \in 1..12 :
        \E dt \in NumberTexts(d) \cup (IF d < 10 THEN {<<" ", DigitChar[d]>>} ELSE {}),
           mt \in NumberTexts(m) :
            /\ Len(s) = Len(dt) + Len(mt) + 6
            /\ SubSeq(s, 1, Len(dt) + Len(mt) + 2) = dt \o <<".">> \o mt \o <<".">>
            /\ \A i \in Len(s) - 3 .. Len(s) : s[i] \in Digits
            /\ int(SubSeq(s, Len(s) - 3, Len(s))) >= 1
            /\ d <= days_in_month(int(SubSeq(s, Len(s) - 3, Len(s))), m)

\* the entries of seq that differ from x, in their order
Without(seq, x) == SelectSeq(seq, LAMBDA p : p # x)

Count(seq, x) == Cardinality({i \in 1..Len(seq) : seq[i] = x})

(***************************************************************************)
(* C1: get_upcoming_birthdays emits a record if and only if it has a       *)
(* birthday whose occurrence in the year of today is one of the seven days *)
(* today .. today + 6; an occurrence on today + 7 or later, or before      *)
(* today, is never emitted.  The code compares with today + 7 days, so     *)
(* this is violated.                                                       *)
(***************************************************************************)
C1_SevenDayWindow ==
    Query =>
        \A i \in 1..Len(data) :
            data[i].rec.name \in Emitted
                <=> /\ data[i].rec.birthday # None
                    /\ OccursWithin(data[i].rec.birthday[1], Today, 6)

(***************************************************************************)
(* C2: every emitted congratulation date is the occurrence itself when it  *)
(* is a Monday to Friday, the occurrence + 2 days when it is a Saturday    *)
(* and + 1 day when it is a Sunday, and so is never a Saturday or Sunday.  *)
(***************************************************************************)
C2_CongratulationDate ==
    Query =>
        \A i \in 1..Len(birthdays) :
            LET rec == find(data, birthdays[i].name)[1]
                occ == Occurrence(rec.birthday[1], Today)
                shift == CASE DayOfWeek(occ) = 5 -> 2
                           [] DayOfWeek(occ) = 6 -> 1
                           [] OTHER -> 0
                date == strptime(birthdays[i].congratulation_date)
            IN  /\ date # None
                /\ ymd2ord(date[1]) = ymd2ord(occ) + shift
                /\ DayOfWeek(date[1]) \notin {5, 6}
                /\ birthdays[i].congratulation_date
                       = strftime(ord2ymd(ymd2ord(occ) + shift))

\* a query that emitted a record whose occurrence was a Saturday
C2_Witness ==
    /\ Query
    /\ \E i \in 1..Len(birthdays) :
          DayOfWeek(Occurrence(find(data, birthdays[i].name)[1].birthday[1],
                               Today)) = 5

(***************************************************************************)
(* C3: after any sequence of add_phone, remove_phone and edit_phone calls  *)
(* every stored phone is a string of exactly 10 digits.  edit_phone stores *)
(* its new value unvalidated, so this is violated.                         *)
(***************************************************************************)
C3_StoredPhonesValid ==
    \A i \in 1..Len(data) :
        \A j \in 1..Len(data[i].rec.phones) : TenDigits(data[i].rec.phones[j])

C5_EditPhoneFrame ==
    last.op = "edit_phone" =>
        /\ Len(Post.phones) = Len(Pre.phones)
        /\ \A i \in 1..Len(Pre.phones) :
              Post.phones[i] = IF Pre.phones[i] = last.arg THEN last.arg2
                               ELSE Pre.phones[i]
        /\ Post.birthday = Pre.birthday
        /\ Post.name = Pre.name
        /\ Count(Pre.phones, last.arg) = 0 => Post = Pre

\* an edit_phone that replaced a phone next to one it had to leave alone
C5_Witness ==
    /\ last.op = "edit_phone"
    /\ last.arg # last.arg2
    /\ Count(Pre.phones, last.arg) >= 1
    /\ \E i \in 1..Len(Pre.phones) : Pre.phones[i] \notin {last.arg, last.arg2}

C7_DirectoryKeys ==
    /\ [](/\ \A i \in 1..Len(data) : data[i].rec.name = data[i].key
          /\ \A n \in Names :
                /\ lastDirOp[n] = "add_record"
                      => find(data, n) # None /\ find(data, n)[1].name = n
                /\ lastDirOp[n] \in {"delete", "never"} => find(data, n) = None)
    /\ [][(last'.op = "delete" /\ last'.pre = None) => data' = data]_vars

\* a delete of a present name while another record stays
C7_Witness ==
    /\ last.op = "delete"
    /\ last.pre # None
    /\ find(data, last.name) = None
    /\ data # <<>>

(***************************************************************************)
(* C8: when the add command fails with the phone validation error, the     *)
(* address book is as it was before the command, whether or not the name   *)
(* existed.  For a new name the record is inserted before the phone is     *)
(* validated, so this is violated.                                         *)
(***************************************************************************)
C8_FailedAddContactLeavesBook ==
    [][(last'.op = "add_contact" /\ last'.result = PhoneError) => data' = data]_vars

(***************************************************************************)
(* C9: get_upcoming_birthdays emits every contact whose next birthday on   *)
(* or after today is one of today .. today + 6, also across the turn of    *)
(* the year.  The code looks at the occurrence in the year of today only,  *)
(* so this is violated.                                                    *)
(***************************************************************************)
C9_NextOccurrenceEmitted ==
    Query =>
        \A i \in 1..Len(data) :
            (/\ data[i].rec.birthday # None
             /\ NextOccursWithin(data[i].rec.birthday[1], Today, 6))
                => data[i].rec.name \in Emitted

(***************************************************************************)
(* C10: get_upcoming_birthdays always returns a list: a record born on     *)
(* 29.02 is skipped in a year that is not a leap year, and every other     *)
(* record whose occurrence is in the window is still emitted.  replace()   *)
(* raises for such a record, so this is violated.                          *)
(***************************************************************************)
C10_QueryReturns ==
    Query =>
        /\ last.result = "ok"
        /\ \A i \in 1..Len(data) :
              (/\ data[i].rec.birthday # None
               /\ OccursWithin(data[i].rec.birthday[1], Today, 6))
                  => data[i].rec.name \in Emitted

====
